---- MODULE Spec2Model ----
(***************************************************************************)
(* Model of the numeric conversion library better-as: the four conversion  *)
(* policies (checked, wrapping, extending, truncating) of number.rs and of *)
(* the crate modules checked_cast.rs, wrapping_cast.rs, extending_cast.rs  *)
(* and truncating_cast.rs.                                                 *)
(*                                                                         *)
(* An integer value is its two's-complement bit pattern: a little-endian   *)
(* sequence of bytes whose length is the byte width of its type.  A float  *)
(* value is a record: NaN, an infinity, or sign * mant * 2^exp with mant   *)
(* odd (or zero), so that equal records are equal bit patterns.            *)
(***************************************************************************)
EXTENDS Integers, Sequences, FiniteSets, TLC

\* The longest chain of wrapping / extending / truncating conversions applied
\* to one input value.
MaxCasts == 2

----------------------------------------------------------------------------
\* Numeric types

UnsignedTypes == {"u8", "u16", "u32", "u64", "u128", "usize"}
SignedTypes   == {"i8", "i16", "i32", "i64", "i128", "isize"}
IntTypes      == UnsignedTypes \cup SignedTypes
FloatTypes    == {"f32", "f64"}
NumericTypes  == IntTypes \cup FloatTypes

\* checked_cast! table, number.rs:3-8: the pointer widths the build accepts
PointerWidths == {16, 32, 64}

IsFloat(T)  == T \in FloatTypes
IsSigned(T) == T \in SignedTypes

\* Bit width of an integer type when the pointer width is W
Bits(T, W) ==
  CASE T \in {"u8", "i8"}       -> 8
    [] T \in {"u16", "i16"}     -> 16
    [] T \in {"u32", "i32"}     -> 32
    [] T \in {"u64", "i64"}     -> 64
    [] T \in {"u128", "i128"}   -> 128
    [] T \in {"usize", "isize"} -> W

\* core::mem::size_of
size_of(T, W) ==
  IF T = "f32" THEN 4 ELSE IF T = "f64" THEN 8 ELSE Bits(T, W) \div 8

SetMax(S) == CHOOSE x \in S : \A y \in S : y <= x

----------------------------------------------------------------------------
\* Integer values as byte sequences

\* <T>::MAX
MaxOf(T, W) ==
  LET n == size_of(T, W)
  IN  [i \in 1..n |-> IF i = n /\ IsSigned(T) THEN 127 ELSE 255]

\* <T>::MIN
MinOf(T, W) ==
  LET n == size_of(T, W)
  IN  [i \in 1..n |-> IF i = n /\ IsSigned(T) THEN 128 ELSE 0]

\* The literal 0 of an integer type
ZeroOf(T, W) == [i \in 1..size_of(T, W) |-> 0]

\* The sign bit of a value of a signed type
IsNegative(val, T) == IsSigned(T) /\ val[Len(val)] >= 128

\* Integer comparison a < b of two values of the same integer type: the
\* most significant differing byte decides; the top byte of a signed type
\* is ordered with its sign bit inverted.
IntKey(a, i, signed) ==
  IF signed /\ i = Len(a) THEN (a[i] + 128) % 256 ELSE a[i]

IntLt(a, b, signed) ==
  LET D == {i \in 1..Len(a) : a[i] # b[i]}
  IN  D # {} /\ IntKey(a, SetMax(D), signed) < IntKey(b, SetMax(D), signed)

\* `x as D` between integer types: keeps the low bytes when D is not wider,
\* otherwise zero-extends an unsigned source and sign-extends a signed one.
IntAsInt(val, S, D, W) ==
  LET m == Len(val)
      n == size_of(D, W)
      fill == IF IsNegative(val, S) THEN 255 ELSE 0
  IN  [i \in 1..n |-> IF i <= m THEN val[i] ELSE fill]

\* The numeric value of a value of at most 16 bits
SmallVal(val, S) ==
  LET u == IF Len(val) = 1 THEN val[1] ELSE val[1] + 256 * val[2]
  IN  IF IsNegative(val, S) THEN u - (IF Len(val) = 1 THEN 256 ELSE 65536) ELSE u

\* The n-byte two's-complement pattern of a small number k
SmallBytes(k, n) ==
  [i \in 1..n |-> IF i = 1 THEN k % 256
                  ELSE IF i = 2 THEN (k \div 256) % 256
                  ELSE IF k < 0 THEN 255 ELSE 0]

----------------------------------------------------------------------------
\* The numbers that values stand for, used to state the properties

\* Byte i of the unbounded two's-complement expansion of a value of type T
NumByte(val, T, i) ==
  IF i <= Len(val) THEN val[i] ELSE IF IsNegative(val, T) THEN 255 ELSE 0

\* Bytes enough for every integer type and the sign
NumBytes == 1..17

\* The number of a (of type S) is below the number of b (of type D)
NumLt(a, S, b, D) ==
  IF IsNegative(a, S) # IsNegative(b, D) THEN IsNegative(a, S)
  ELSE \E i \in NumBytes :
         /\ NumByte(a, S, i) < NumByte(b, D, i)
         /\ \A j \in NumBytes : j > i => NumByte(a, S, j) = NumByte(b, D, j)

\* a (of type S) and b (of type D) are the same number
NumEq(a, S, b, D) == \A i \in NumBytes : NumByte(a, S, i) = NumByte(b, D, i)

\* a (of type S) and b (of type D) are congruent modulo 2^(8n)
Congruent(a, S, b, D, n) == \A i \in 1..n : NumByte(a, S, i) = NumByte(b, D, i)

\* The number of v (of type S) is above D::MAX, below D::MIN
AboveMax(v, S, D, W) == NumLt(MaxOf(D, W), D, v, S)

BelowMin(v, S, D, W) == NumLt(v, S, MinOf(D, W), D)

----------------------------------------------------------------------------
\* Float values

NaN == [cls |-> "nan", neg |-> FALSE, mant |-> 0, exp |-> 0]

Inf(neg) == [cls |-> "inf", neg |-> neg, mant |-> 0, exp |-> 0]

\* Number of bits of a mantissa m < 2^30
BitLen(m) == CHOOSE k \in 0..30 : m < 2^k /\ (k = 0 \/ 2^(k-1) <= m)

RECURSIVE OddPart(_, _)
OddPart(m, e) ==
  IF m = 0 THEN <<0, 0>>
  ELSE IF m % 2 = 0 THEN OddPart(m \div 2, e + 1)
  ELSE <<m, e>>

\* The finite float sign * m * 2^e, with m made odd
Fin(neg, m, e) ==
  LET p == OddPart(m, e)
  IN  [cls |-> "fin", neg |-> neg, mant |-> p[1], exp |-> p[2]]

\* f32 has 24 significant bits, f64 has 53
MantBits(F) == IF F = "f32" THEN 24 ELSE 53

\* The exponent of the smallest subnormal: 2^-149 and 2^-1074
MinExp(F) == IF F = "f32" THEN -149 ELSE -1074

\* Every finite value of F is below 2^TopExp(F)
TopExp(F) == IF F = "f32" THEN 128 ELSE 1024

Max2(a, b) == IF a >= b THEN a ELSE b

\* Rounding of sign * m * 2^e to the nearest value of F, ties to even,
\* overflowing to infinity
FloatRound(neg, m, e, F) ==
  LET s == Max2(0, Max2(BitLen(m) - MantBits(F), MinExp(F) - e))
      q == IF s > 30 THEN 0 ELSE m \div 2^s
      r == IF s > 30 THEN 0 ELSE m % 2^s
      up == s >= 1 /\ s <= 30
            /\ (r > 2^(s-1) \/ (r = 2^(s-1) /\ q % 2 = 1))
      q2 == IF up THEN q + 1 ELSE q
  IN  IF q2 # 0 /\ BitLen(q2) + e + s > TopExp(F)
      THEN Inf(neg)
      ELSE Fin(neg, q2, e + s)

is_nan(a) == a.cls = "nan"

is_infinite(a) == a.cls = "inf"

IsZero(a) == a.cls = "fin" /\ a.mant = 0

\* |a| < |b| for two values that are not NaN
MagLt(a, b) ==
  IF a.cls = "inf" THEN FALSE
  ELSE IF b.cls = "inf" THEN TRUE
  ELSE IF b.mant = 0 THEN FALSE
  ELSE IF a.mant = 0 THEN TRUE
  ELSE LET la == BitLen(a.mant)
           lb == BitLen(b.mant)
       IN  \/ la + a.exp < lb + b.exp
           \/ /\ la + a.exp = lb + b.exp
              /\ a.mant * 2^(30 - la) < b.mant * 2^(30 - lb)

\* IEEE comparison a < b: false if either is NaN, and -0.0 = +0.0
FloatLt(a, b) ==
  IF is_nan(a) \/ is_nan(b) THEN FALSE
  ELSE IF IsZero(a) /\ IsZero(b) THEN FALSE
  ELSE IF a.neg /\ ~b.neg THEN TRUE
  ELSE IF ~a.neg /\ b.neg THEN FALSE
  ELSE IF a.neg THEN MagLt(b, a)
  ELSE MagLt(a, b)

\* f32::trunc / f64::trunc: the integer part, keeping the sign
trunc(a) ==
  IF a.cls # "fin" \/ a.exp >= 0 THEN a
  ELSE Fin(a.neg, IF -a.exp > 30 THEN 0 ELSE a.mant \div 2^(-a.exp), 0)

\* `x as F` from an integer type of at most 16 bits (exact)
IntAsFloat(val, S, F) ==
  LET k == SmallVal(val, S)
  IN  FloatRound(k < 0, IF k < 0 THEN -k ELSE k, 0, F)

\* `x as F` between float types
FloatAsFloat(a, F) ==
  IF a.cls = "fin" THEN FloatRound(a.neg, a.mant, a.exp, F) ELSE a

\* `x as D` from a float to an integer type of at most 16 bits: NaN gives 0,
\* values outside the range of D saturate, others lose their fraction
FloatAsInt(a, D, W) ==
  IF is_nan(a) THEN ZeroOf(D, W)
  ELSE IF FloatLt(a, IntAsFloat(MinOf(D, W), D, "f64")) THEN MinOf(D, W)
  ELSE IF FloatLt(IntAsFloat(MaxOf(D, W), D, "f64"), a) THEN MaxOf(D, W)
  ELSE LET t == trunc(a)
           k == t.mant * 2^t.exp
       IN  SmallBytes(IF t.neg THEN -k ELSE k, size_of(D, W))

\* The primitive cast `val as D` of a value of type S
as_cast(val, S, D, W) ==
  IF IsFloat(S)
  THEN IF IsFloat(D) THEN FloatAsFloat(val, D) ELSE FloatAsInt(val, D, W)
  ELSE IF IsFloat(D) THEN IntAsFloat(val, S, D) ELSE IntAsInt(val, S, D, W)

\* a < b for two values of type S
Lt(a, b, S) == IF IsFloat(S) THEN FloatLt(a, b) ELSE IntLt(a, b, IsSigned(S))

----------------------------------------------------------------------------
\* Results of a checked conversion

NoResult == [kind |-> "none", ty |-> "-", val |-> <<>>, err |-> "-"]

Ok(D, v) == [kind |-> "Ok", ty |-> D, val |-> v, err |-> "-"]

Err(e) == [kind |-> "Err", ty |-> "-", val |-> <<>>, err |-> e]

\* checked_cast.rs: an Output that is the bare destination type
Bare(D, v) == [kind |-> "Value", ty |-> D, val |-> v, err |-> "-"]

NumCastError == {"Overflow", "Underflow", "Infinite", "NaN", "Fractional"}

----------------------------------------------------------------------------
\* checked_cast! table, number.rs: checked conversion

\* check!(upper ...) with >= in place of >
check_upper_ge(val, S, D, W) ==
  IF ~Lt(val, as_cast(MaxOf(D, W), D, S, W), S) THEN "Overflow" ELSE "pass"

check_upper(val, S, D, W) ==
  IF Lt(as_cast(MaxOf(D, W), D, S, W), val, S) THEN "Overflow" ELSE "pass"

\* check!(lower ...) with the operands of < exchanged
check_lower_swapped(val, S, D, W) ==
  IF Lt(as_cast(MinOf(D, W), D, S, W), val, S) THEN "Underflow" ELSE "pass"

check_lower(val, S, D, W) ==
  IF Lt(val, as_cast(MinOf(D, W), D, S, W), S) THEN "Underflow" ELSE "pass"

check_both(val, S, D, W) ==
  IF check_upper(val, S, D, W) # "pass"
  THEN check_upper(val, S, D, W)
  ELSE check_lower(val, S, D, W)

check(rule, val, S, D, W) ==
  CASE rule = "upper"      -> check_upper(val, S, D, W)
    [] rule = "lower"      -> check_lower(val, S, D, W)
    [] rule = "both"       -> check_both(val, S, D, W)
    [] rule = "infallible" -> "pass"

\* A row of the table: one rule for every pointer width
Row(lhs, rhs, c) ==
  [lhs |-> lhs, rhs |-> rhs, rule |-> [w \in PointerWidths |-> c]]

\* A row whose rule depends on the pointer width
RowP(lhs, rhs, c16, c32, c64) ==
  [lhs |-> lhs, rhs |-> rhs,
   rule |-> [w \in PointerWidths |->
               IF w = 16 THEN c16 ELSE IF w = 32 THEN c32 ELSE c64]]

\* A row of a float source and an integer destination
RowF(lhs, rhs) == Row(lhs, rhs, "float")

\* The u8 rows with an upper test for u8 => u16
rows_u8_strict ==
  << Row("u8", "u8", "infallible"),
     Row("u8", "u16", "upper"),
     Row("u8", "u32", "infallible"),
     Row("u8", "u64", "infallible"),
     Row("u8", "u128", "infallible"),
     Row("u8", "i8", "upper"),
     Row("u8", "i16", "infallible"),
     Row("u8", "i32", "infallible"),
     Row("u8", "i64", "infallible"),
     Row("u8", "i128", "infallible"),
     Row("u8", "usize", "infallible"),
     Row("u8", "isize", "infallible"),
     Row("u8", "f32", "infallible"),
     Row("u8", "f64", "infallible") >>

\* checked_cast! table, number.rs:201-214
rows_u8 ==
  << Row("u8", "u8", "infallible"),
     Row("u8", "u16", "infallible"),
     Row("u8", "u32", "infallible"),
     Row("u8", "u64", "infallible"),
     Row("u8", "u128", "infallible"),
     Row("u8", "i8", "upper"),
     Row("u8", "i16", "infallible"),
     Row("u8", "i32", "infallible"),
     Row("u8", "i64", "infallible"),
     Row("u8", "i128", "infallible"),
     Row("u8", "usize", "infallible"),
     Row("u8", "isize", "infallible"),
     Row("u8", "f32", "infallible"),
     Row("u8", "f64", "infallible") >>

\* The u16 rows with u16 => i16 taken for infallible
rows_u16_lax ==
  << Row("u16", "u8", "upper"),
     Row("u16", "u16", "infallible"),
     Row("u16", "u32", "infallible"),
     Row("u16", "u64", "infallible"),
     Row("u16", "u128", "infallible"),
     Row("u16", "i8", "upper"),
     Row("u16", "i16", "infallible"),
     Row("u16", "i32", "infallible"),
     Row("u16", "i64", "infallible"),
     Row("u16", "i128", "infallible"),
     Row("u16", "usize", "infallible"),
     RowP("u16", "isize", "upper", "infallible", "infallible"),
     Row("u16", "f32", "infallible"),
     Row("u16", "f64", "infallible") >>

\* checked_cast! table, number.rs:217-230
rows_u16 ==
  << Row("u16", "u8", "upper"),
     Row("u16", "u16", "infallible"),
     Row("u16", "u32", "infallible"),
     Row("u16", "u64", "infallible"),
     Row("u16", "u128", "infallible"),
     Row("u16", "i8", "upper"),
     Row("u16", "i16", "upper"),
     Row("u16", "i32", "infallible"),
     Row("u16", "i64", "infallible"),
     Row("u16", "i128", "infallible"),
     Row("u16", "usize", "infallible"),
     RowP("u16", "isize", "upper", "infallible", "infallible"),
     Row("u16", "f32", "infallible"),
     Row("u16", "f64", "infallible") >>

\* checked_cast! table, number.rs:233-244
rows_u32 ==
  << Row("u32", "u8", "upper"),
     Row("u32", "u16", "upper"),
     Row("u32", "u32", "infallible"),
     Row("u32", "u64", "infallible"),
     Row("u32", "u128", "infallible"),
     Row("u32", "i8", "upper"),
     Row("u32", "i16", "upper"),
     Row("u32", "i32", "upper"),
     Row("u32", "i64", "infallible"),
     Row("u32", "i128", "infallible"),
     RowP("u32", "usize", "upper", "infallible", "infallible"),
     RowP("u32", "isize", "upper", "upper", "infallible") >>

\* checked_cast! table, number.rs:247-258
rows_u64 ==
  << Row("u64", "u8", "upper"),
     Row("u64", "u16", "upper"),
     Row("u64", "u32", "upper"),
     Row("u64", "u64", "infallible"),
     Row("u64", "u128", "infallible"),
     Row("u64", "i8", "upper"),
     Row("u64", "i16", "upper"),
     Row("u64", "i32", "upper"),
     Row("u64", "i64", "upper"),
     Row("u64", "i128", "infallible"),
     RowP("u64", "usize", "upper", "upper", "infallible"),
     Row("u64", "isize", "upper") >>

\* checked_cast! table, number.rs:261-272
rows_u128 ==
  << Row("u128", "u8", "upper"),
     Row("u128", "u16", "upper"),
     Row("u128", "u32", "upper"),
     Row("u128", "u64", "upper"),
     Row("u128", "u128", "infallible"),
     Row("u128", "i8", "upper"),
     Row("u128", "i16", "upper"),
     Row("u128", "i32", "upper"),
     Row("u128", "i64", "upper"),
     Row("u128", "i128", "upper"),
     Row("u128", "usize", "upper"),
     Row("u128", "isize", "upper") >>

\* checked_cast! table, number.rs:275-288
rows_i8 ==
  << Row("i8", "u8", "lower"),
     Row("i8", "u16", "lower"),
     Row("i8", "u32", "lower"),
     Row("i8", "u64", "lower"),
     Row("i8", "u128", "lower"),
     Row("i8", "i8", "infallible"),
     Row("i8", "i16", "infallible"),
     Row("i8", "i32", "infallible"),
     Row("i8", "i64", "infallible"),
     Row("i8", "i128", "infallible"),
     Row("i8", "usize", "lower"),
     Row("i8", "isize", "infallible"),
     Row("i8", "f32", "infallible"),
     Row("i8", "f64", "infallible") >>

\* The i16 rows with i16 => u16 checked against both bounds
rows_i16_strict ==
  << Row("i16", "u8", "both"),
     Row("i16", "u16", "both"),
     Row("i16", "u32", "lower"),
     Row("i16", "u64", "lower"),
     Row("i16", "u128", "lower"),
     Row("i16", "i8", "both"),
     Row("i16", "i16", "infallible"),
     Row("i16", "i32", "infallible"),
     Row("i16", "i64", "infallible"),
     Row("i16", "i128", "infallible"),
     Row("i16", "usize", "lower"),
     Row("i16", "isize", "infallible"),
     Row("i16", "f32", "infallible"),
     Row("i16", "f64", "infallible") >>

\* checked_cast! table, number.rs:291-304
rows_i16 ==
  << Row("i16", "u8", "both"),
     Row("i16", "u16", "lower"),
     Row("i16", "u32", "lower"),
     Row("i16", "u64", "lower"),
     Row("i16", "u128", "lower"),
     Row("i16", "i8", "both"),
     Row("i16", "i16", "infallible"),
     Row("i16", "i32", "infallible"),
     Row("i16", "i64", "infallible"),
     Row("i16", "i128", "infallible"),
     Row("i16", "usize", "lower"),
     Row("i16", "isize", "infallible"),
     Row("i16", "f32", "infallible"),
     Row("i16", "f64", "infallible") >>

\* checked_cast! table, number.rs:307-318
rows_i32 ==
  << Row("i32", "u8", "both"),
     Row("i32", "u16", "both"),
     Row("i32", "u32", "lower"),
     Row("i32", "u64", "lower"),
     Row("i32", "u128", "lower"),
     Row("i32", "i8", "both"),
     Row("i32", "i16", "both"),
     Row("i32", "i32", "infallible"),
     Row("i32", "i64", "infallible"),
     Row("i32", "i128", "infallible"),
     RowP("i32", "usize", "both", "lower", "lower"),
     RowP("i32", "isize", "both", "infallible", "infallible") >>

\* checked_cast! table, number.rs:321-332
rows_i64 ==
  << Row("i64", "u8", "both"),
     Row("i64", "u16", "both"),
     Row("i64", "u32", "both"),
     Row("i64", "u64", "lower"),
     Row("i64", "u128", "lower"),
     Row("i64", "i8", "both"),
     Row("i64", "i16", "both"),
     Row("i64", "i32", "both"),
     Row("i64", "i64", "infallible"),
     Row("i64", "i128", "infallible"),
     RowP("i64", "usize", "both", "both", "lower"),
     RowP("i64", "isize", "both", "both", "infallible") >>

\* checked_cast! table, number.rs:335-346
rows_i128 ==
  << Row("i128", "u8", "both"),
     Row("i128", "u16", "both"),
     Row("i128", "u32", "both"),
     Row("i128", "u64", "both"),
     Row("i128", "u128", "lower"),
     Row("i128", "i8", "both"),
     Row("i128", "i16", "both"),
     Row("i128", "i32", "both"),
     Row("i128", "i64", "both"),
     Row("i128", "i128", "infallible"),
     Row("i128", "usize", "both"),
     Row("i128", "isize", "both") >>

\* checked_cast! table, number.rs:349-360
rows_usize ==
  << Row("usize", "u8", "upper"),
     RowP("usize", "u16", "infallible", "upper", "upper"),
     RowP("usize", "u32", "infallible", "infallible", "upper"),
     RowP("usize", "u64", "infallible", "infallible", "infallible"),
     RowP("usize", "u128", "infallible", "infallible", "infallible"),
     Row("usize", "i8", "upper"),
     Row("usize", "i16", "upper"),
     RowP("usize", "i32", "infallible", "upper", "upper"),
     RowP("usize", "i64", "infallible", "infallible", "upper"),
     RowP("usize", "i128", "infallible", "infallible", "infallible"),
     Row("usize", "usize", "infallible"),
     Row("usize", "isize", "upper") >>

\* checked_cast! table, number.rs:363-374
rows_isize ==
  << Row("isize", "u8", "both"),
     RowP("isize", "u16", "lower", "both", "both"),
     RowP("isize", "u32", "lower", "lower", "both"),
     Row("isize", "u64", "lower"),
     Row("isize", "u128", "lower"),
     Row("isize", "i8", "both"),
     RowP("isize", "i16", "infallible", "both", "both"),
     RowP("isize", "i32", "infallible", "infallible", "both"),
     RowP("isize", "i64", "infallible", "infallible", "infallible"),
     RowP("isize", "i128", "infallible", "infallible", "infallible"),
     Row("isize", "usize", "lower"),
     Row("isize", "isize", "infallible") >>

\* checked_cast! table, number.rs:377-382
rows_f32 ==
  << RowF("f32", "u8"),
     RowF("f32", "u16"),
     RowF("f32", "i8"),
     RowF("f32", "i16"),
     Row("f32", "f32", "infallible"),
     Row("f32", "f64", "infallible") >>

\* checked_cast! table, number.rs:385-389
rows_f64 ==
  << RowF("f64", "u8"),
     RowF("f64", "u16"),
     RowF("f64", "i8"),
     RowF("f64", "i16"),
     Row("f64", "f64", "infallible") >>
\* The table with the pair usize => u16 classified a second time
number_table_dup ==
  rows_u8 \o rows_u16 \o rows_u32 \o rows_u64 \o rows_u128
  \o rows_i8 \o rows_i16 \o rows_i32 \o rows_i64 \o rows_i128
  \o rows_usize \o rows_isize \o rows_f32 \o rows_f64
  \o << Row("usize", "u16", "upper") >>

number_table ==
  rows_u8 \o rows_u16 \o rows_u32 \o rows_u64 \o rows_u128
  \o rows_i8 \o rows_i16 \o rows_i32 \o rows_i64 \o rows_i128
  \o rows_usize \o rows_isize \o rows_f32 \o rows_f64

\* The rows of a table that define the pair (S, D)
RowsOf(table, S, D) ==
  {i \in DOMAIN table : table[i].lhs = S /\ table[i].rhs = D}

\* The rule of the 64-bit build, whatever the pointer width
rule_of_64(S, D, W) ==
  number_table[CHOOSE i \in RowsOf(number_table, S, D) : TRUE].rule[64]

\* The rule the build selects for the pair (S, D) at pointer width W
rule_of(S, D, W) ==
  number_table[CHOOSE i \in RowsOf(number_table, S, D) : TRUE].rule[W]

\* The float arms with the range tested before the fractional part
float_checked_cast_range_first(val, S, D, W) ==
  IF is_nan(val) THEN Err("NaN")
  ELSE IF is_infinite(val) THEN Err("Infinite")
  ELSE IF check_both(val, S, D, W) # "pass" THEN Err(check_both(val, S, D, W))
  ELSE IF trunc(val) # val THEN Err("Fractional")
  ELSE Ok(D, as_cast(val, S, D, W))

\* The f32 / f64 arms of checked_cast!
float_checked_cast(val, S, D, W) ==
  IF is_nan(val) THEN Err("NaN")
  ELSE IF is_infinite(val) THEN Err("Infinite")
  ELSE IF trunc(val) # val THEN Err("Fractional")
  ELSE IF check_both(val, S, D, W) # "pass" THEN Err(check_both(val, S, D, W))
  ELSE Ok(D, as_cast(val, S, D, W))

\* CheckedCast::checked_cast of number.rs
number_checked_cast(val, S, D, W) ==
  LET rule == rule_of(S, D, W)
  IN  IF rule = "float" THEN float_checked_cast(val, S, D, W)
      ELSE IF check(rule, val, S, D, W) # "pass"
           THEN Err(check(rule, val, S, D, W))
           ELSE Ok(D, as_cast(val, S, D, W))

----------------------------------------------------------------------------
\* checked_cast.rs: checked conversion

\* impl_cast!(@trivial ...)
trivial_types ==
  << "u8", "u16", "u32", "u64", "u128", "usize",
     "i8", "i16", "i32", "i64", "i128", "isize",
     "f32", "f64" >>

\* impl_cast!(@extending ...)
checked_extending ==
  << <<"u8", "u16">>, <<"u8", "u32">>, <<"u8", "u64">>, <<"u8", "u128">>,
     <<"u8", "usize">>, <<"u8", "f32">>, <<"u8", "f64">>,
     <<"u16", "u32">>, <<"u16", "u64">>, <<"u16", "u128">>,
     <<"u16", "f32">>, <<"u16", "f64">>,
     <<"u32", "u64">>, <<"u32", "u128">>,
     <<"u64", "u128">>,
     <<"i8", "i16">>, <<"i8", "i32">>, <<"i8", "i64">>, <<"i8", "i128">>,
     <<"i8", "isize">>, <<"i8", "f32">>, <<"i8", "f64">>,
     <<"i16", "i32">>, <<"i16", "i64">>, <<"i16", "i128">>,
     <<"i16", "f32">>, <<"i16", "f64">>,
     <<"i32", "i64">>, <<"i32", "i128">>,
     <<"i64", "i128">>,
     <<"f32", "f64">> >>

\* impl_cast!(@truncating @unsigned ...)
checked_truncating_unsigned ==
  << <<"u128", "u8">>, <<"u128", "u16">>, <<"u128", "u32">>, <<"u128", "u64">>,
     <<"u64", "u8">>, <<"u64", "u16">>, <<"u64", "u32">>,
     <<"u32", "u8">>, <<"u32", "u16">>,
     <<"u16", "u8">>,
     <<"usize", "u8">> >>

\* impl_cast!(@truncating @signed ...)
checked_truncating_signed ==
  << <<"i128", "i8">>, <<"i128", "i16">>, <<"i128", "i32">>, <<"i128", "i64">>,
     <<"i64", "i8">>, <<"i64", "i16">>, <<"i64", "i32">>,
     <<"i32", "i8">>, <<"i32", "i16">>,
     <<"i16", "i8">>,
     <<"isize", "i8">> >>

\* impl_cast!(@wrapping @u2i ...)
checked_u2i ==
  << <<"usize", "isize">>, <<"u128", "i128">>, <<"u64", "i64">>,
     <<"u32", "i32">>, <<"u16", "i16">>, <<"u8", "i8">> >>

\* impl_cast!(@wrapping @i2u ...)
checked_i2u ==
  << <<"isize", "usize">>, <<"i128", "u128">>, <<"i64", "u64">>,
     <<"i32", "u32">>, <<"i16", "u16">>, <<"i8", "u8">> >>

\* Whether a list of pairs holds the pair (S, D)
HasPair(pairs, S, D) == \E i \in DOMAIN pairs : pairs[i] = <<S, D>>

\* f32::MAX and f32::MIN, as f64
f32_MAX == Fin(FALSE, 16777215, 104)

f32_MIN == Fin(TRUE, 16777215, 104)

\* f64 -> f32 rejecting NaN and the infinities as the float -> integer arms do
f64_to_f32_rejecting(val) ==
  IF is_nan(val) THEN Err("NaN")
  ELSE IF is_infinite(val) THEN Err("Infinite")
  ELSE IF FloatLt(val, f32_MIN) THEN Err("Underflow")
  ELSE IF FloatLt(f32_MAX, val) THEN Err("Overflow")
  ELSE Ok("f32", as_cast(val, "f64", "f32", 0))

\* impl CheckedCast<f32> for f64
f64_to_f32_checked_cast(val) ==
  IF is_nan(val) \/ is_infinite(val) THEN Ok("f32", as_cast(val, "f64", "f32", 0))
  ELSE IF FloatLt(val, f32_MIN) THEN Err("Underflow")
  ELSE IF FloatLt(f32_MAX, val) THEN Err("Overflow")
  ELSE Ok("f32", as_cast(val, "f64", "f32", 0))

\* The @truncating @unsigned and @wrapping @u2i arms:
\* self <= <$rhs>::max_value() as Self
checked_le_max(val, S, D, W) ==
  IF ~Lt(as_cast(MaxOf(D, W), D, S, W), val, S)
  THEN Ok(D, as_cast(val, S, D, W))
  ELSE Err("Overflow")

\* The @truncating @signed arm
checked_signed(val, S, D, W) ==
  IF ~Lt(as_cast(MaxOf(D, W), D, S, W), val, S)
  THEN IF ~Lt(val, as_cast(MinOf(D, W), D, S, W), S)
       THEN Ok(D, as_cast(val, S, D, W))
       ELSE Err("Underflow")
  ELSE Err("Overflow")

\* The @wrapping @i2u arm with self > 0
checked_gt_zero(val, S, D, W) ==
  IF Lt(ZeroOf(S, W), val, S)
  THEN Ok(D, as_cast(val, S, D, W))
  ELSE Err("Underflow")

\* The @wrapping @i2u arm: self >= 0
checked_ge_zero(val, S, D, W) ==
  IF ~Lt(val, ZeroOf(S, W), S)
  THEN Ok(D, as_cast(val, S, D, W))
  ELSE Err("Underflow")

\* Whether checked_cast.rs implements CheckedCast<D> for S
crate_checked_defined(S, D) ==
  \/ S = D /\ \E i \in DOMAIN trivial_types : trivial_types[i] = S
  \/ HasPair(checked_extending, S, D)
  \/ HasPair(checked_truncating_unsigned, S, D)
  \/ HasPair(checked_truncating_signed, S, D)
  \/ HasPair(checked_u2i, S, D)
  \/ HasPair(checked_i2u, S, D)
  \/ <<S, D>> = <<"f64", "f32">>

\* CheckedCast::checked_cast of checked_cast.rs
crate_checked_cast(val, S, D, W) ==
  CASE S = D                                       -> Bare(S, val)
    [] HasPair(checked_extending, S, D)            -> Bare(D, as_cast(val, S, D, W))
    [] HasPair(checked_truncating_unsigned, S, D)  -> checked_le_max(val, S, D, W)
    [] HasPair(checked_truncating_signed, S, D)    -> checked_signed(val, S, D, W)
    [] HasPair(checked_u2i, S, D)                  -> checked_le_max(val, S, D, W)
    [] HasPair(checked_i2u, S, D)                  -> checked_ge_zero(val, S, D, W)
    [] <<S, D>> = <<"f64", "f32">>                 -> f64_to_f32_checked_cast(val)

----------------------------------------------------------------------------
\* Wrapping, extending and truncating conversions

\* wrapping_cast!(...) of number.rs
number_wrapping ==
  << <<"u8", "i8">>, <<"u16", "i16">>, <<"u32", "i32">>, <<"u64", "i64">>,
     <<"u128", "i128">>, <<"usize", "isize">>, <<"i8", "u8">>, <<"i16", "u16">>,
     <<"i32", "u32">>, <<"i64", "u64">>, <<"i128", "u128">>, <<"isize", "usize">> >>

\* extending_cast!(...) of number.rs
number_extending ==
  << <<"u8", "u16">>, <<"u8", "u32">>, <<"u8", "u64">>, <<"u8", "u128">>,
     <<"u16", "u32">>, <<"u16", "u64">>, <<"u16", "u128">>, <<"u32", "u64">>,
     <<"u32", "u128">>, <<"u64", "u128">>, <<"i8", "i16">>, <<"i8", "i32">>,
     <<"i8", "i64">>, <<"i8", "i128">>, <<"i16", "i32">>, <<"i16", "i64">>,
     <<"i16", "i128">>, <<"i32", "i64">>, <<"i32", "i128">>, <<"i64", "i128">> >>

\* truncating_cast!(...) of number.rs
number_truncating ==
  << <<"u16", "u8">>, <<"u32", "u8">>, <<"u64", "u8">>, <<"u128", "u8">>,
     <<"u32", "u16">>, <<"u64", "u16">>, <<"u128", "u16">>, <<"u64", "u32">>,
     <<"u128", "u32">>, <<"u128", "u64">>, <<"i16", "i8">>, <<"i32", "i8">>,
     <<"i64", "i8">>, <<"i128", "i8">>, <<"i32", "i16">>, <<"i64", "i16">>,
     <<"i128", "i16">>, <<"i64", "i32">>, <<"i128", "i32">>, <<"i128", "i64">> >>

\* impl_cast!(...) of wrapping_cast.rs
crate_wrapping ==
  << <<"u8", "i8">>, <<"u16", "i16">>, <<"u32", "i32">>, <<"u64", "i64">>,
     <<"u128", "i128">>, <<"usize", "isize">>, <<"i8", "u8">>, <<"i16", "u16">>,
     <<"i32", "u32">>, <<"i64", "u64">>, <<"i128", "u128">>, <<"isize", "usize">> >>

\* impl_cast!(...) of extending_cast.rs
crate_extending ==
  << <<"u8", "u16">>, <<"u8", "u32">>, <<"u8", "u64">>, <<"u8", "u128">>,
     <<"u8", "usize">>, <<"u16", "u32">>, <<"u16", "u64">>, <<"u16", "u128">>,
     <<"u32", "u64">>, <<"u32", "u128">>, <<"u64", "u128">>, <<"i8", "i16">>,
     <<"i8", "i32">>, <<"i8", "i64">>, <<"i8", "i128">>, <<"i8", "isize">>,
     <<"i16", "i32">>, <<"i16", "i64">>, <<"i16", "i128">>, <<"i32", "i64">>,
     <<"i32", "i128">>, <<"i64", "i128">> >>

\* impl_cast!(...) of truncating_cast.rs
crate_truncating ==
  << <<"u16", "u8">>, <<"u32", "u8">>, <<"u32", "u16">>, <<"u64", "u8">>,
     <<"u64", "u16">>, <<"u64", "u32">>, <<"u128", "u8">>, <<"u128", "u16">>,
     <<"u128", "u32">>, <<"u128", "u64">>, <<"usize", "u8">>, <<"i16", "i8">>,
     <<"i32", "i8">>, <<"i32", "i16">>, <<"i64", "i8">>, <<"i64", "i16">>,
     <<"i64", "i32">>, <<"i128", "i8">>, <<"i128", "i16">>, <<"i128", "i32">>,
     <<"i128", "i64">>, <<"isize", "i8">> >>

\* The tables of the implementation in use: number.rs or the crate's modules
wrapping_table(m) == IF m = "number" THEN number_wrapping ELSE crate_wrapping

\* The tables with u16 => usize added to extending_cast.rs
extending_table_u16_usize(m) ==
  IF m = "number" THEN number_extending
  ELSE crate_extending \o << <<"u16", "usize">> >>

extending_table(m) == IF m = "number" THEN number_extending ELSE crate_extending

truncating_table(m) == IF m = "number" THEN number_truncating ELSE crate_truncating

\* A conversion that clamps to the range of D instead of wrapping
saturating_cast(val, S, D, W) ==
  IF AboveMax(val, S, D, W) THEN MaxOf(D, W)
  ELSE IF BelowMin(val, S, D, W) THEN MinOf(D, W)
  ELSE as_cast(val, S, D, W)

\* WrappingCast::wrapping_cast: self as $rhs
wrapping_cast(val, S, D, W) == as_cast(val, S, D, W)

\* An extension that always fills the new high bytes with zero
extending_cast_zero(val, S, D, W) ==
  IF IsFloat(S) \/ IsFloat(D) THEN as_cast(val, S, D, W)
  ELSE [i \in 1..size_of(D, W) |-> IF i <= Len(val) THEN val[i] ELSE 0]

\* ExtendingCast: self as $rhs
extending_cast(val, S, D, W) == as_cast(val, S, D, W)

\* A truncation that keeps the high-order bytes
truncating_cast_high(val, S, D, W) ==
  LET n == size_of(D, W)
  IN  [i \in 1..n |-> val[Len(val) - n + i]]

\* A truncation that clamps to the range of D
truncating_cast_saturating(val, S, D, W) == saturating_cast(val, S, D, W)

\* TruncatingCast::truncating_cast: self as $rhs
truncating_cast(val, S, D, W) == as_cast(val, S, D, W)

\* Whether the implementation m defines a checked conversion from S to D
checked_defined(m, S, D) ==
  IF m = "number" THEN RowsOf(number_table, S, D) # {}
  ELSE crate_checked_defined(S, D)

\* checked_cast of the implementation m
checked_cast(m, val, S, D, W) ==
  IF m = "number" THEN number_checked_cast(val, S, D, W)
  ELSE crate_checked_cast(val, S, D, W)

----------------------------------------------------------------------------
\* Input values

\* An n-byte pattern: byte lo below position k, mid at k, hi above it
Shape(n, k, lo, mid, hi) ==
  [i \in 1..n |-> IF i < k THEN lo ELSE IF i = k THEN mid ELSE hi]

\* The patterns, at the top byte of an 8, 16, 32, 64 or 128-bit integer, of
\* 2^(w-1) - 1, 2^(w-1), 2^w - 1, -2^(w-1) and -2^(w-1) - 1
EdgeShapes ==
  { <<255, 127, 0>>, <<0, 128, 0>>, <<255, 255, 0>>,
    <<0, 128, 255>>, <<255, 127, 255>> }

\* The given low bytes followed by a fill byte
Padded(low, n, fill) ==
  [i \in 1..n |-> IF i <= Len(low) THEN low[i] ELSE fill]

\* The values of an n-byte integer type the model converts: the edges of
\* the range of every integer type and their neighbours, 0, 1, -1, the
\* powers 2^8 .. 2^64, and 200, 300, 50000, -5, -25536
IntSamples(n) ==
  { Shape(n, k, s[1], s[2], s[3]) : k \in {1, 2, 4, 8, 16} \cap 1..n,
                                    s \in EdgeShapes }
  \cup { Shape(n, k, 0, 1, 0) : k \in {1, 2, 3, 5, 9} \cap 1..n }
  \cup { Padded(<<>>, n, 0), Padded(<<200>>, n, 0), Padded(<<251>>, n, 255) }
  \cup { Padded(low, n, 0) : low \in IF n >= 2 THEN {<<44, 1>>, <<80, 195>>}
                                     ELSE {} }

\* The f32 values the model converts
F32Samples ==
  { NaN, Inf(FALSE), Inf(TRUE) }
  \cup { Fin(neg, 0, 0) : neg \in BOOLEAN }
  \cup { Fin(neg, m, 0) : neg \in BOOLEAN,
           m \in {1, 2, 127, 128, 129, 255, 256, 32767, 32768, 32769,
                  65535, 65536, 50000} }
  \cup { Fin(neg, m, -1) : neg \in BOOLEAN, m \in {1, 5, 255, 511, 601, 131071} }
  \cup { Fin(neg, 1, 100) : neg \in BOOLEAN }
  \cup { Fin(neg, 16777215, 104) : neg \in BOOLEAN }

\* The f64 values the model converts: the f32 values, values next to
\* f32::MAX and f32::MIN, values beyond them, and values f32 must round
F64Samples ==
  F32Samples
  \cup { Fin(neg, 1073741761, 98) : neg \in BOOLEAN }
  \cup { Fin(neg, 1073741759, 98) : neg \in BOOLEAN }
  \cup { Fin(neg, 1, 128) : neg \in BOOLEAN }
  \cup { Fin(neg, 1, 200) : neg \in BOOLEAN }
  \cup { Fin(neg, 33554433, 0) : neg \in BOOLEAN }
  \cup { Fin(neg, 1, -200) : neg \in BOOLEAN }

Samples(T, W) ==
  IF T = "f32" THEN F32Samples
  ELSE IF T = "f64" THEN F64Samples
  ELSE IntSamples(size_of(T, W))

----------------------------------------------------------------------------
\* The conversions as a state machine: an input value of some type, then
\* either one checked conversion, or a chain of wrapping, extending and
\* truncating conversions, each applied to the result of the one before.

VARIABLES
  width,   \* target_pointer_width of the build
  impl,    \* "number": the traits of number.rs; "crate": those of the modules
  trace,   \* the input and the values converted from it, each with its type
  ops,     \* the conversions applied, in order
  res      \* the result of the checked conversion, if one was applied

vars == <<width, impl, trace, ops, res>>

Cur == trace[Len(trace)]

Input == trace[1]

Init ==
  /\ width \in PointerWidths
  /\ impl \in {"number", "crate"}
  /\ \E T \in NumericTypes : \E v \in Samples(T, width) :
       trace = << [ty |-> T, val |-> v] >>
  /\ ops = << >>
  /\ res = NoResult

\* checked_cast::<S, D>(input)
CheckedCast ==
  /\ ops = << >>
  /\ \E D \in NumericTypes :
       /\ checked_defined(impl, Cur.ty, D)
       /\ res' = checked_cast(impl, Cur.val, Cur.ty, D, width)
       /\ ops' = Append(ops, <<"checked_cast", D>>)
  /\ UNCHANGED <<width, impl, trace>>

\* The function of an infallible conversion
apply_cast(op, val, S, D, W) ==
  CASE op = "wrapping_cast"   -> wrapping_cast(val, S, D, W)
    [] op = "extending_cast"  -> extending_cast(val, S, D, W)
    [] op = "truncating_cast" -> truncating_cast(val, S, D, W)

\* The infallible conversion op, defined for the pairs of table, applied to
\* the current value
Chain(op, table) ==
  /\ res = NoResult
  /\ Len(ops) < MaxCasts
  /\ \E D \in NumericTypes :
       /\ HasPair(table, Cur.ty, D)
       /\ trace' = Append(trace, [ty |-> D,
                                  val |-> apply_cast(op, Cur.val, Cur.ty, D, width)])
       /\ ops' = Append(ops, <<op, D>>)
  /\ UNCHANGED <<width, impl, res>>

\* wrapping_cast::<S, D>(value)
WrappingCast == Chain("wrapping_cast", wrapping_table(impl))

\* extending_cast::<S, D>(value)
ExtendingCast == Chain("extending_cast", extending_table(impl))

\* truncating_cast::<S, D>(value)
TruncatingCast == Chain("truncating_cast", truncating_table(impl))

Next == CheckedCast \/ WrappingCast \/ ExtendingCast \/ TruncatingCast

Spec == Init /\ [][Next]_vars

----------------------------------------------------------------------------
\* Outcomes of a checked conversion, used to state the properties

FixedTypes == IntTypes \ {"usize", "isize"}

\* A checked conversion returned a value
Success(r) == r.kind \in {"Ok", "Value"}

\* The checked conversion failed with the error e
Failed(e) == res.kind = "Err" /\ res.err = e

\* The checked conversion returned Ok(v), v of type D
Returned(D, v) == res.kind = "Ok" /\ res.ty = D /\ res.val = v

\* The state after checked_cast::<S, D> of implementation m
Checked(m) == impl = m /\ Len(ops) = 1 /\ ops[1][1] = "checked_cast"

\* The checked conversion of v : S to D gave what the ranges ask for
RangeOutcome(v, S, D, W) ==
  IF AboveMax(v, S, D, W) THEN Failed("Overflow")
  ELSE IF BelowMin(v, S, D, W) THEN Failed("Underflow")
  ELSE Success(res) /\ res.ty = D /\ Len(res.val) = size_of(D, W)
       /\ NumEq(res.val, D, v, S)

----------------------------------------------------------------------------
\* Properties

\* C1: for every pair of fixed-width integer types that number.rs checks
\* (upper, lower or both), checked_cast returns Ok with the same number
\* exactly when the source lies in the destination's range, Err(Overflow)
\* when it is above D::MAX and Err(Underflow) when it is below D::MIN.
C1_CheckedBounds ==
  (/\ Checked("number")
   /\ Input.ty \in FixedTypes
   /\ ops[1][2] \in FixedTypes
   /\ rule_of(Input.ty, ops[1][2], width) \in {"upper", "lower", "both"})
  => /\ RangeOutcome(Input.val, Input.ty, ops[1][2], width)
     /\ res.kind = "Ok" <=> ~AboveMax(Input.val, Input.ty, ops[1][2], width)
                            /\ ~BelowMin(Input.val, Input.ty, ops[1][2], width)

\* u16 300 -> u8 was rejected with Overflow
C1_Witness ==
  /\ Checked("number")
  /\ Input.ty = "u16" /\ Input.val = <<44, 1>>
  /\ ops[1][2] = "u8"
  /\ Failed("Overflow")

\* C2: at every pointer width, a checked conversion from or to usize or
\* isize succeeds with the same number exactly when the source lies in the
\* destination's range at that width, and otherwise fails with Overflow
\* above the range and Underflow below it.
C2_PlatformWidth ==
  (/\ Len(ops) = 1 /\ ops[1][1] = "checked_cast"
   /\ Input.ty \in IntTypes /\ ops[1][2] \in IntTypes
   /\ {Input.ty, ops[1][2]} \cap {"usize", "isize"} # {})
  => RangeOutcome(Input.val, Input.ty, ops[1][2], width)

\* On a 32-bit target isize 50000 -> i16 was rejected with Overflow
C2_Witness ==
  /\ Checked("number")
  /\ width = 32
  /\ Input.ty = "isize" /\ Input.val = <<80, 195, 0, 0>>
  /\ ops[1][2] = "i16"
  /\ Failed("Overflow")

\* The float a is the number of the integer value b (of a type of at most
\* 16 bits)
FloatIsInt(a, b, D) ==
  /\ a.cls = "fin"
  /\ a.exp >= 0 /\ a.exp <= 16
  /\ a.mant * 2^a.exp = (IF a.neg THEN -SmallVal(b, D) ELSE SmallVal(b, D))

\* The pair (S, D) is one that implementation m converts without a check
Infallible(m, S, D, W) ==
  IF m = "number"
  THEN RowsOf(number_table, S, D) # {} /\ rule_of(S, D, W) = "infallible"
  ELSE S = D \/ HasPair(checked_extending, S, D)

\* C3: for every pair classified infallible (at the pointer width of the
\* build), every sampled value of the source lies in the destination's
\* range, checked_cast returns it unchanged, and converting the result back
\* to the source type yields the input (a NaN comes back as a NaN).
C3_Infallible ==
  (/\ Len(ops) = 1 /\ ops[1][1] = "checked_cast"
   /\ Infallible(impl, Input.ty, ops[1][2], width))
  => /\ Success(res)
     /\ res.ty = ops[1][2]
     /\ as_cast(res.val, res.ty, Input.ty, width) = Input.val
     /\ (Input.ty \in IntTypes /\ res.ty \in IntTypes)
          => /\ ~AboveMax(Input.val, Input.ty, res.ty, width)
             /\ ~BelowMin(Input.val, Input.ty, res.ty, width)
             /\ NumEq(res.val, res.ty, Input.val, Input.ty)
     /\ (Input.ty \in IntTypes /\ res.ty \in FloatTypes)
          => FloatIsInt(res.val, Input.val, Input.ty)
     /\ (Input.ty \in FloatTypes) => res.val = Input.val

\* i16 -32768 -> i64 succeeded, on a 16-bit target u16 65535 -> usize did
C3_Witness ==
  /\ Checked("number")
  /\ \/ /\ Input.ty = "i16" /\ Input.val = <<0, 128>>
        /\ Returned("i64", <<0, 128, 255, 255, 255, 255, 255, 255>>)
     \/ /\ width = 16
        /\ Input.ty = "u16" /\ Input.val = <<255, 255>>
        /\ Returned("usize", <<255, 255>>)

FloatPairs ==
  ({"u8", "u16", "i8", "i16"} \X FloatTypes)
  \cup (FloatTypes \X {"u8", "u16", "i8", "i16"})
  \cup {<<"f32", "f32">>, <<"f32", "f64">>, <<"f64", "f64">>}

\* The number of impls of CheckedCast<D> for S in checked_cast.rs
CrateImpls(S, D) ==
  Cardinality({i \in DOMAIN trivial_types : trivial_types[i] = S /\ S = D})
  + Cardinality({i \in DOMAIN checked_extending : checked_extending[i] = <<S, D>>})
  + Cardinality({i \in DOMAIN checked_truncating_unsigned :
                   checked_truncating_unsigned[i] = <<S, D>>})
  + Cardinality({i \in DOMAIN checked_truncating_signed :
                   checked_truncating_signed[i] = <<S, D>>})
  + Cardinality({i \in DOMAIN checked_u2i : checked_u2i[i] = <<S, D>>})
  + Cardinality({i \in DOMAIN checked_i2u : checked_i2u[i] = <<S, D>>})
  + (IF <<S, D>> = <<"f64", "f32">> THEN 1 ELSE 0)

\* The number of rows of the number.rs table, and of impls of
\* checked_cast.rs, for every ordered pair of numeric types
number_count ==
  [p \in NumericTypes \X NumericTypes |->
     Cardinality(RowsOf(number_table, p[1], p[2]))]

crate_count ==
  [p \in NumericTypes \X NumericTypes |-> CrateImpls(p[1], p[2])]

\* C4 as stated: every ordered pair of the 14 numeric types has exactly one
\* checked-conversion classification (stated, after a checked conversion,
\* of its source type and every destination type).
C4_Exhaustive ==
  Checked("number") =>
    \A D \in NumericTypes : number_count[<<Input.ty, D>>] = 1

\* C4, amended: number.rs classifies every ordered pair of the 12 integer
\* types exactly once; of the pairs with a float type it classifies exactly
\* FloatPairs, once each; checked_cast.rs defines no pair twice.
C4_IntegerExhaustive ==
  (Len(ops) = 1 /\ ops[1][1] = "checked_cast") =>
    \A D \in NumericTypes :
      /\ number_count[<<Input.ty, D>>]
           = (IF (Input.ty \in IntTypes /\ D \in IntTypes)
                 \/ <<Input.ty, D>> \in FloatPairs
              THEN 1 ELSE 0)
      /\ crate_count[<<Input.ty, D>>] <= 1

\* A checked conversion between two integer types was applied with number.rs
C4_Witness ==
  /\ Checked("number")
  /\ Input.ty = "i128"
  /\ ops[1][2] = "usize"
  /\ res.kind = "Ok"

\* The finite float a has a non-zero fractional part (its mantissa is odd)
HasFraction(a) == a.cls = "fin" /\ a.mant # 0 /\ a.exp < 0

\* The magnitude of the finite integral float a exceeds the natural k <= 2^16
MagAbove(a, k) ==
  a.mant # 0 /\ (a.exp > 16 \/ a.mant > k \div 2^a.exp)

\* The largest and the smallest number of an integer type of at most 16 bits
MaxNum(D, W) == SmallVal(MaxOf(D, W), D)

MinNum(D, W) == SmallVal(MinOf(D, W), D)

\* C5: a checked conversion of number.rs from f32 or f64 to an integer type
\* tests NaN, then infinite, then a fractional part, then the range: NaN
\* gives Err(NaN), an infinity Err(Infinite), a value with a fraction
\* Err(Fractional) whether or not it is in range, an integral value above
\* the range Err(Overflow), below it Err(Underflow), and any other value Ok
\* with the same number.
C5_FloatToInt ==
  (/\ Checked("number")
   /\ Input.ty \in FloatTypes
   /\ ops[1][2] \in IntTypes)
  => LET v == Input.val
         D == ops[1][2]
     IN  IF v.cls = "nan" THEN Failed("NaN")
         ELSE IF v.cls = "inf" THEN Failed("Infinite")
         ELSE IF HasFraction(v) THEN Failed("Fractional")
         ELSE IF ~v.neg /\ MagAbove(v, MaxNum(D, width)) THEN Failed("Overflow")
         ELSE IF v.neg /\ MagAbove(v, -MinNum(D, width)) THEN Failed("Underflow")
         ELSE /\ res.kind = "Ok" /\ res.ty = D
              /\ Len(res.val) = size_of(D, width)
              /\ FloatIsInt(v, res.val, D)

\* 300.5 -> u8, fractional and out of range, was rejected as Fractional
C5_Witness ==
  /\ Checked("number")
  /\ Input.ty = "f64" /\ Input.val = Fin(FALSE, 601, -1)
  /\ ops[1][2] = "u8"
  /\ Failed("Fractional")

\* The magnitude of the finite float a exceeds f32::MAX = (2^24 - 1) * 2^104
ExceedsF32(a) ==
  LET l == BitLen(a.mant)
  IN  /\ a.mant # 0
      /\ \/ l + a.exp > 128
         \/ l + a.exp = 128 /\ l > 24 /\ a.mant > 16777215 * 2^(l - 24)

\* C6: the checked conversion f64 -> f32 of checked_cast.rs returns Ok for
\* NaN (a NaN) and for the infinities (the same infinity), Err(Underflow)
\* for a finite value below f32::MIN, Err(Overflow) for a finite value above
\* f32::MAX, and Ok for every other finite value; never Err(NaN) or
\* Err(Infinite).
C6_FloatNarrowing ==
  (/\ Checked("crate")
   /\ Input.ty = "f64"
   /\ ops[1][2] = "f32")
  => LET v == Input.val
     IN  /\ res.kind = "Err" => res.err \in {"Overflow", "Underflow"}
         /\ IF v.cls # "fin" THEN Returned("f32", v)
            ELSE IF ExceedsF32(v)
                 THEN Failed(IF v.neg THEN "Underflow" ELSE "Overflow")
                 ELSE res.kind = "Ok" /\ res.ty = "f32" /\ res.val.cls = "fin"

\* NaN was accepted, and a finite value above f32::MAX rejected
C6_Witness ==
  /\ Checked("crate")
  /\ Input.ty = "f64"
  /\ ops[1][2] = "f32"
  /\ \/ Input.val = NaN /\ Returned("f32", NaN)
     \/ Input.val = Fin(FALSE, 1073741761, 98) /\ Failed("Overflow")

\* Conversion i of the chain was made by the operation op
Applied(i, op) == i \in 1..Len(ops) /\ ops[i][1] = op

\* C7: every integer type has a wrapping conversion to the type of the same
\* width and the other signedness, every wrapping pair has its reverse pair,
\* the wrapped value is congruent to its source modulo 2^width (the same
\* bit pattern), and wrapping it back gives the source value again.
C7_WrappingInvolution ==
  /\ \A i \in 1..Len(trace) :
       trace[i].ty \in IntTypes =>
         \E D \in IntTypes :
           /\ HasPair(wrapping_table(impl), trace[i].ty, D)
           /\ size_of(D, width) = size_of(trace[i].ty, width)
           /\ IsSigned(D) # IsSigned(trace[i].ty)
  /\ \A i \in 1..Len(ops) :
       Applied(i, "wrapping_cast") =>
         LET s == trace[i]
             d == trace[i + 1]
         IN  /\ HasPair(wrapping_table(impl), d.ty, s.ty)
             /\ Len(d.val) = size_of(d.ty, width)
             /\ Congruent(s.val, s.ty, d.val, d.ty, size_of(s.ty, width))
             /\ wrapping_cast(d.val, d.ty, s.ty, width) = s.val
             /\ Applied(i + 1, "wrapping_cast") => trace[i + 2] = s

\* u8 200 was wrapped to i8 -56 and back to u8 200
C7_Witness ==
  /\ Len(ops) = 2
  /\ Applied(1, "wrapping_cast") /\ Applied(2, "wrapping_cast")
  /\ trace[1].ty = "u8" /\ trace[1].val = <<200>>
  /\ trace[2].ty = "i8" /\ trace[2].val = <<200>> /\ IsNegative(trace[2].val, "i8")
  /\ trace[3].ty = "u8" /\ trace[3].val = <<200>>

\* C8: every extending pair (S, D) has the truncating pair (D, S), and
\* truncating an extended value back to S gives the value extended.
C8_ExtendTruncate ==
  \A i \in 1..Len(ops) :
    Applied(i, "extending_cast") =>
      LET s == trace[i]
          d == trace[i + 1]
      IN  /\ HasPair(truncating_table(impl), d.ty, s.ty)
          /\ truncating_cast(d.val, d.ty, s.ty, width) = s.val
          /\ (Applied(i + 1, "truncating_cast") /\ ops[i + 1][2] = s.ty)
               => trace[i + 2] = s

\* On a 16-bit target i8 -128 was extended to isize and truncated back
C8_Witness ==
  /\ impl = "crate" /\ width = 16
  /\ Len(ops) = 2
  /\ Applied(1, "extending_cast") /\ Applied(2, "truncating_cast")
  /\ trace[1].ty = "i8" /\ trace[1].val = <<128>>
  /\ trace[2].ty = "isize" /\ trace[2].val = <<128, 255>>
  /\ trace[3].ty = "i8" /\ trace[3].val = <<128>>

\* C9: a truncating conversion always returns a value of D, the one
\* congruent to the source modulo 2^bitwidth(D).
C9_TruncatingLowBits ==
  \A i \in 1..Len(ops) :
    Applied(i, "truncating_cast") =>
      LET s == trace[i]
          d == trace[i + 1]
      IN  /\ d.ty = ops[i][2]
          /\ Len(d.val) = size_of(d.ty, width)
          /\ \A j \in 1..Len(d.val) : d.val[j] \in 0..255
          /\ Congruent(s.val, s.ty, d.val, d.ty, size_of(d.ty, width))

\* i32 2^15 was truncated to i16 -32768, u16 300 to u8 44
C9_Witness ==
  /\ Len(ops) = 1
  /\ Applied(1, "truncating_cast")
  /\ \/ /\ trace[1].ty = "i32" /\ trace[1].val = <<0, 128, 0, 0>>
        /\ trace[2].ty = "i16" /\ trace[2].val = <<0, 128>>
     \/ /\ trace[1].ty = "u16" /\ trace[1].val = <<44, 1>>
        /\ trace[2].ty = "u8" /\ trace[2].val = <<44>>

\* Whether every pair of a table has the widths related by rel ("=", "<" or
\* ">") and the signedness equal (same) or opposite
Respects(table, W, rel, same) ==
  \A i \in DOMAIN table :
    LET a == size_of(table[i][1], W)
        b == size_of(table[i][2], W)
    IN  /\ table[i][1] \in IntTypes /\ table[i][2] \in IntTypes
        /\ CASE rel = "=" -> a = b
             [] rel = "<" -> a < b
             [] rel = ">" -> a > b
        /\ (IsSigned(table[i][1]) = IsSigned(table[i][2])) = same

\* For each implementation and pointer width: whether its three tables
\* respect the width relation of their policy
tables_respect ==
  [m \in {"number", "crate"}, W \in PointerWidths |->
     /\ Respects(wrapping_table(m), W, "=", FALSE)
     /\ Respects(extending_table(m), W, "<", TRUE)
     /\ Respects(truncating_table(m), W, ">", TRUE)]

\* C10: at the pointer width of the build every wrapping pair has equal
\* widths and opposite signedness, every extending pair a strictly wider
\* destination of the same signedness, every truncating pair a strictly
\* narrower destination of the same signedness; so has every conversion made.
C10_WidthRelation ==
  /\ tables_respect[impl, width]
  /\ \A i \in 1..Len(ops) :
       LET a == size_of(trace[i].ty, width)
           b == size_of(trace[i + 1].ty, width)
       IN  /\ Applied(i, "wrapping_cast") => a = b
           /\ Applied(i, "extending_cast") => a < b
           /\ Applied(i, "truncating_cast") => a > b

\* On a 16-bit target u8 was extended to usize and usize truncated to u8
C10_Witness ==
  /\ impl = "crate" /\ width = 16
  /\ Len(ops) = 2
  /\ Applied(1, "extending_cast") /\ Applied(2, "truncating_cast")
  /\ trace[1].ty = "u8" /\ trace[2].ty = "usize" /\ trace[3].ty = "u8"

\* The pair (S, D) is one that implementation m checks against both bounds
BothBounds(m, S, D, W) ==
  IF m = "number"
  THEN RowsOf(number_table, S, D) # {} /\ rule_of(S, D, W) \in {"both", "float"}
  ELSE HasPair(checked_truncating_signed, S, D) \/ <<S, D>> = <<"f64", "f32">>

\* The upper test, and the lower test, of the code rejects v
upper_fails(v, S, D, W) ==
  IF <<S, D>> = <<"f64", "f32">> THEN FloatLt(f32_MAX, v)
  ELSE check_upper(v, S, D, W) # "pass"

lower_fails(v, S, D, W) ==
  IF <<S, D>> = <<"f64", "f32">> THEN FloatLt(v, f32_MIN)
  ELSE check_lower(v, S, D, W) # "pass"

\* The conversion of v returns before its bound tests: the NaN, infinite
\* and fractional tests of number.rs, the NaN / infinite arm of f64 -> f32
BeforeBounds(m, v, S) ==
  /\ IsFloat(S)
  /\ \/ is_nan(v) \/ is_infinite(v)
     \/ m = "number" /\ trunc(v) # v

\* C11: for every pair checked against both bounds no value fails the upper
\* and the lower test at once, so the result does not depend on which test
\* comes first: Overflow if the upper test fails, Underflow if the lower
\* test fails, success if neither does.
C11_OrderIrrelevant ==
  (/\ Len(ops) = 1 /\ ops[1][1] = "checked_cast"
   /\ BothBounds(impl, Input.ty, ops[1][2], width))
  => LET v == Input.val
         S == Input.ty
         D == ops[1][2]
     IN  /\ ~(upper_fails(v, S, D, width) /\ lower_fails(v, S, D, width))
         /\ ~BeforeBounds(impl, v, S) =>
              /\ upper_fails(v, S, D, width) <=> Failed("Overflow")
              /\ lower_fails(v, S, D, width) <=> Failed("Underflow")
              /\ Success(res) <=> ~upper_fails(v, S, D, width)
                                  /\ ~lower_fails(v, S, D, width)

\* i64 -2^31 - 1 -> i32 failed the lower test only, with both orders of test
C11_Witness ==
  /\ Len(ops) = 1 /\ ops[1][1] = "checked_cast"
  /\ Input.ty = "i64" /\ ops[1][2] = "i32"
  /\ Input.val = <<255, 255, 255, 127, 255, 255, 255, 255>>
  /\ lower_fails(Input.val, "i64", "i32", width)
  /\ ~upper_fails(Input.val, "i64", "i32", width)
  /\ Failed("Underflow")

\* checked_cast of number.rs rejects the value v : S with the error e
Rejects(v, S, D, W, e) ==
  /\ number_checked_cast(v, S, D, W).kind = "Err"
  /\ number_checked_cast(v, S, D, W).err = e

\* C12: at the pointer width of the build, an integer pair classified upper
\* has a source value above D::MAX that returns Overflow (S::MAX) and none
\* below D::MIN, a pair classified lower has a source value below D::MIN
\* that returns Underflow (S::MIN) and none above D::MAX, and a pair
\* classified both has a value returning Overflow and a value returning
\* Underflow.
C12_NonRedundant ==
  (/\ Checked("number")
   /\ Input.ty \in IntTypes
   /\ ops[1][2] \in IntTypes)
  => LET S == Input.ty
         D == ops[1][2]
         rule == rule_of(S, D, width)
         top == MaxOf(S, width)
         bottom == MinOf(S, width)
     IN  /\ rule \in {"upper", "both"} =>
              /\ AboveMax(top, S, D, width)
              /\ Rejects(top, S, D, width, "Overflow")
              /\ Input.val = top => Failed("Overflow")
         /\ rule \in {"lower", "both"} =>
              /\ BelowMin(bottom, S, D, width)
              /\ Rejects(bottom, S, D, width, "Underflow")
              /\ Input.val = bottom => Failed("Underflow")
         /\ rule = "upper" =>
              /\ ~BelowMin(bottom, S, D, width)
              /\ ~BelowMin(Input.val, S, D, width)
         /\ rule = "lower" =>
              /\ ~AboveMax(top, S, D, width)
              /\ ~AboveMax(Input.val, S, D, width)

\* On a 32-bit target isize::MAX -> u16 (both) returned Overflow, and
\* isize::MIN -> u32 (lower) returned Underflow
C12_Witness ==
  /\ Checked("number")
  /\ width = 32
  /\ Input.ty = "isize"
  /\ \/ /\ ops[1][2] = "u16"
        /\ Input.val = MaxOf("isize", 32)
        /\ rule_of("isize", "u16", 32) = "both"
        /\ Failed("Overflow")
     \/ /\ ops[1][2] = "u32"
        /\ Input.val = MinOf("isize", 32)
        /\ rule_of("isize", "u32", 32) = "lower"
        /\ Failed("Underflow")

\* The conversion of implementation m from S to D compares the source with
\* D::MAX cast to S, with D::MIN cast to S
UpperTested(m, S, D, W) ==
  IF m = "number"
  THEN RowsOf(number_table, S, D) # {}
       /\ rule_of(S, D, W) \in {"upper", "both", "float"}
  ELSE \/ HasPair(checked_truncating_unsigned, S, D)
       \/ HasPair(checked_truncating_signed, S, D)
       \/ HasPair(checked_u2i, S, D)

LowerTested(m, S, D, W) ==
  IF m = "number"
  THEN RowsOf(number_table, S, D) # {}
       /\ rule_of(S, D, W) \in {"lower", "both", "float"}
  ELSE HasPair(checked_truncating_signed, S, D)

\* The value b of type S is the number of the bound of the integer type D
BoundKept(b, S, bound, D) ==
  IF IsFloat(S) THEN FloatIsInt(b, bound, D) ELSE NumEq(b, S, bound, D)

\* C13: wherever a conversion to an integer type tests the upper bound,
\* D::MAX cast to the source type is the number D::MAX, and wherever it
\* tests the lower bound, D::MIN cast to the source type is the number
\* D::MIN: the constant of no bound test wraps.
C13_BoundsRepresentable ==
  (/\ Len(ops) = 1 /\ ops[1][1] = "checked_cast"
   /\ ops[1][2] \in IntTypes)
  => LET S == Input.ty
         D == ops[1][2]
     IN  /\ UpperTested(impl, S, D, width) =>
              BoundKept(as_cast(MaxOf(D, width), D, S, width), S,
                        MaxOf(D, width), D)
         /\ LowerTested(impl, S, D, width) =>
              BoundKept(as_cast(MinOf(D, width), D, S, width), S,
                        MinOf(D, width), D)

\* On a 32-bit target isize 50000 -> u16 passed both tests, against the
\* bounds 65535 and 0 as isize
C13_Witness ==
  /\ Checked("number")
  /\ width = 32
  /\ Input.ty = "isize" /\ ops[1][2] = "u16"
  /\ Input.val = <<80, 195, 0, 0>>
  /\ as_cast(MaxOf("u16", 32), "u16", "isize", 32) = <<255, 255, 0, 0>>
  /\ as_cast(MinOf("u16", 32), "u16", "isize", 32) = <<0, 0, 0, 0>>
  /\ Returned("u16", <<80, 195>>)

\* Two results are the same success (a bare value counting as success) or
\* the same error
SameOutcome(a, b) ==
  \/ /\ Success(a) /\ Success(b)
     /\ a.ty = b.ty /\ a.val = b.val
  \/ /\ a.kind = "Err" /\ b.kind = "Err"
     /\ a.err = b.err

\* C14: for every integer pair that checked_cast.rs and number.rs both
\* define, at the pointer width of the build, the two return the same value
\* or the same error for the value converted.
C14_ImplementationsAgree ==
  (/\ Len(ops) = 1 /\ ops[1][1] = "checked_cast"
   /\ Input.ty \in IntTypes /\ ops[1][2] \in IntTypes
   /\ checked_defined("number", Input.ty, ops[1][2])
   /\ checked_defined("crate", Input.ty, ops[1][2]))
  => /\ SameOutcome(number_checked_cast(Input.val, Input.ty, ops[1][2], width),
                    crate_checked_cast(Input.val, Input.ty, ops[1][2], width))
     /\ SameOutcome(res, checked_cast(IF impl = "number" THEN "crate" ELSE "number",
                                      Input.val, Input.ty, ops[1][2], width))

\* On a 16-bit target checked_cast.rs rejected isize 0 - 129 -> i8 with
\* Underflow, as number.rs does; and it accepted isize 0 -> usize
C14_Witness ==
  /\ Checked("crate")
  /\ width = 16
  /\ Input.ty = "isize"
  /\ \/ /\ ops[1][2] = "i8"
        /\ Input.val = <<127, 255>>
        /\ Failed("Underflow")
        /\ Rejects(Input.val, "isize", "i8", 16, "Underflow")
     \/ /\ ops[1][2] = "usize"
        /\ Input.val = <<0, 0>>
        /\ Returned("usize", <<0, 0>>)
        /\ number_checked_cast(Input.val, "isize", "usize", 16).kind = "Ok"

\* The unchecked conversions
Unchecked == {"wrapping_cast", "extending_cast", "truncating_cast"}

\* The checked conversion of implementation m, where it is defined from the
\* type of s to the type of d and accepts the value of s, returns d
AgreesWithChecked(m, s, d) ==
  (/\ checked_defined(m, s.ty, d.ty)
   /\ Success(checked_cast(m, s.val, s.ty, d.ty, width)))
  => LET r == checked_cast(m, s.val, s.ty, d.ty, width)
     IN  r.ty = d.ty /\ r.val = d.val

\* C15: wherever a pair has a checked conversion and the checked conversion
\* accepts the value, the wrapping, extending or truncating conversion of
\* the pair returns the value the checked one returns; the two differ only
\* on values the checked conversion rejects.
C15_UncheckedAgreesWithChecked ==
  \A i \in 1..Len(ops) :
    ops[i][1] \in Unchecked
    => /\ AgreesWithChecked("number", trace[i], trace[i + 1])
       /\ AgreesWithChecked("crate", trace[i], trace[i + 1])

\* i8 0 - 1 was extended to i16 0 - 1, which both checked conversions of
\* the pair return as well
C15_Witness ==
  /\ Len(ops) >= 1
  /\ ops[1] = <<"extending_cast", "i16">>
  /\ trace[1].ty = "i8"
  /\ trace[1].val = <<255>>
  /\ trace[2].ty = "i16"
  /\ trace[2].val = <<255, 255>>
  /\ Success(checked_cast("number", <<255>>, "i8", "i16", width))
  /\ Success(checked_cast("crate", <<255>>, "i8", "i16", width))

====
